---- MODULE Spec2Model ----
(***************************************************************************)
(* A state-machine model of aioservicekit: the Service lifecycle           *)
(* (service.py), the TaskGroup (group.py), the shutdown Event (events.py)  *)
(* and the broadcast Chanel (chanels.py).                                  *)
(*                                                                         *)
(* asyncio is single threaded and cooperative: the code between two awaits *)
(* that really suspend runs atomically, so every action below is one such  *)
(* segment of a coroutine.                                                 *)
(***************************************************************************)
EXTENDS Naturals, Sequences, FiniteSets

\* The service objects, and a TaskGroup "g" used on its own.
Svc == {"a", "b"}
Groups == Svc \cup {"g"}
\* The asyncio tasks that call into the services: the user's tasks, and the
\* tasks the shutdown Event creates for its listeners, one per listener and
\* emit. A task that has finished can stand for a later one.
Users == {"t1", "t2"}
ListenerOrder == <<"la", "lb">>
ListenerTasks == {ListenerOrder[i] : i \in 1..Len(ListenerOrder)}
ServiceOrder == <<"a", "b">>
Threads == Users \cup ListenerTasks
\* The observers of state changes (the callbacks given to subscribe()).
Observers == {"o1"}
\* The listeners given to an Event on its own, and the tasks that emit on it.
Listeners == {"l1", "l2"}
Emitters == {"e1", "e2"}
\* How many unfinished auxiliary tasks a service's TaskGroup holds at most.
MaxAux == 1
\* How many tasks the stand-alone TaskGroup "g" holds at most.
MaxGroupTasks == 2
\* The customers a Chanel may get, and the tasks that send on it.
Subs == {"s1", "s2"}
Pubs == {"p1", "p2"}
\* The largest buffer size given to a customer (0 is asyncio's unbounded Queue).
MaxSize == 2
\* How many send() calls a publisher makes at most.
MaxSends == 3

VARIABLES
    live,                 \* the services that were constructed
    state,                \* AbscractService.__state, per service
    mainTask,             \* AbscractService.__main: "none" (None), "running", "done"
    waiterSet,            \* AbscractService.__waiter: the asyncio.Event's flag
    registered,           \* the listeners of the shutdown Event (one per service)
    tasks,                \* TaskGroup.__tasks, per group: members counted by status
    uncanceliable_tasks,  \* TaskGroup.__uncanceliable_tasks, per group
    th,                   \* the calling tasks: operation, object, position, log
    returned,             \* the call that ended in the step leading to this state
    subscribers,          \* the listeners of AbscractService.__on_state_change
    subVia,               \* per observer, the services whose subscribe() it was given to
    observed,             \* per observer, the arguments of its last invocation
    noted,                \* per calling task, its pending emit has called the listeners
    ev_listeners,         \* Event.__listeners__
    ev_closed,            \* Event.__closed__
    kind,                 \* per listener, "sync" (a function) or "async" (a coroutine function)
    em,                   \* per emitter, its emit(): position, listeners called, result
    evRes,                \* the add_listener/remove_listener/close call made in the step
                          \* leading to this state, and how it ended
    pubs,                 \* the publishers that send on the Chanel
    strict,               \* Chanel.__strict
    chanel_size,          \* Chanel.__size
    customers,            \* Chanel.__customers, in the order of connect()
    size,                 \* ChanelCustomer.__buffer.maxsize
    buffer,               \* ChanelCustomer.__buffer: the queued items
    cloused,              \* ChanelCustomer.__cloused
    putters,              \* asyncio.Queue._putters of the buffer: the suspended put()s
    deliv,                \* per publisher and customer, the task of _send(data)
    pub,                  \* per publisher: position, number of send() calls, last result
    rd,                   \* per customer, the position of its consumer's read(), "idle"
                          \* or "ChanelCustomerCloused" (how the last one ended) between
                          \* two, "none" before connect() has created the customer
    recv,                 \* per customer, the items its consumer's read() returned
    missed,               \* per customer, the send() calls made before it connected
    fullAtCall,           \* per publisher, the customers whose buffer was full at send()
    readSince,            \* per publisher, the customers that read since its send()
    closeRes,             \* per customer, how its last close() ended
    ready                 \* the callbacks the event loop is to run, in call_soon order,
                          \* where the order of the loop is modelled

chanData == <<pubs, strict, chanel_size, customers, size, buffer, cloused, putters,
              deliv, pub, rd, recv, missed, fullAtCall, readSince, closeRes>>

chanVars == <<chanData, ready>>

obsVars == <<subscribers, subVia, observed, noted>>

evVars == <<ev_listeners, ev_closed, kind, em, evRes>>

svcOnly == <<live, state, mainTask, waiterSet, registered, tasks, uncanceliable_tasks, th,
             returned, obsVars>>

svcAll == <<svcOnly, evVars>>

vars == <<svcAll, chanVars>>

svcVars == <<live, state, mainTask, waiterSet, registered>>

\* ServiceState (service.py:11-15), by name.
ServiceState == {"STARTING", "RUNNING", "STOPING", "STOPED"}

IdleThread == [op |-> "none", obj |-> "none", via |-> "none", pc |-> "idle",
               log |-> <<>>, seen |-> FALSE, cancelReq |-> FALSE]

\* A task set with no member: members are counted by status, "run" (unfinished),
\* "cancel" (unfinished, cancellation requested), "done" (finished, its done
\* callback, which removes it from the set, not yet run).
EmptySet == [run |-> 0, cancel |-> 0, done |-> 0]

SetLen(ts) == ts.run + ts.cancel + ts.done

\* AbscractService.is_running
is_running_any(s) == state[s] # "STOPED"
is_running(s) == state[s] = "RUNNING"

\* AbscractService.is_stoped
is_stoped_not_running(s) == state[s] # "RUNNING"
is_stoped_or_stoping(s) == state[s] \in {"STOPED", "STOPING"}
is_stoped(s) == state[s] = "STOPED"

\* AbscractService.__init__ and TaskGroup.__init__
\* Chanel.__init__(size, strict): no customer.
InitChanel(publishers, sizes, stricts) ==
    /\ pubs = publishers
    /\ strict \in stricts
    /\ chanel_size \in sizes
    /\ customers = <<>>
    /\ size = [s \in Subs |-> 0]
    /\ buffer = [s \in Subs |-> <<>>]
    /\ cloused = [s \in Subs |-> FALSE]
    /\ putters = [s \in Subs |-> <<>>]
    /\ deliv = [p \in Pubs |-> [s \in Subs |-> "none"]]
    /\ pub = [p \in Pubs |-> [pc |-> "idle", sent |-> 0, res |-> "none"]]
    /\ rd = [s \in Subs |-> "none"]
    /\ recv = [s \in Subs |-> <<>>]
    /\ missed = [s \in Subs |-> 0]
    /\ fullAtCall = [p \in Pubs |-> {}]
    /\ readSince = [p \in Pubs |-> {}]
    /\ closeRes = [s \in Subs |-> "none"]
    /\ ready = <<>>

\* No invocation of an observer yet.
NoNote == <<"none", "none">>

\* An emitter that has not called emit().
IdleEmit == [pc |-> "idle", snap |-> {}, inv |-> [l \in Listeners |-> 0],
             run |-> [l \in Listeners |-> "none"], res |-> "none"]

NoCall == <<"none", "none">>

\* Where no Event is used on its own its listeners' kinds do not matter.
AllSync == {[l \in Listeners |-> "sync"]}

InitKinds(services, kinds) ==
    /\ live = services
    /\ state = [s \in Svc |-> "STOPED"]
    /\ mainTask = [s \in Svc |-> "none"]
    /\ waiterSet = [s \in Svc |-> FALSE]
    /\ registered = {}
    /\ tasks = [o \in Groups |-> EmptySet]
    /\ uncanceliable_tasks = [o \in Groups |-> EmptySet]
    /\ th = [t \in Threads |-> IdleThread]
    /\ returned = IdleThread
    /\ subscribers = {}
    /\ subVia = [o \in Observers |-> {}]
    /\ observed = [o \in Observers |-> NoNote]
    /\ noted = [t \in Threads |-> FALSE]
    /\ ev_listeners = {}
    /\ ev_closed = FALSE
    /\ kind \in kinds
    /\ em = [e \in Emitters |-> IdleEmit]
    /\ evRes = NoCall

InitOf(services) == InitKinds(services, AllSync)

\* One service.
Init == InitOf({"a"}) /\ InitChanel({}, {0}, {TRUE})

\* A call begins in task t.
Call(t, op, s, via, pc, log) ==
    [th[t] EXCEPT !.op = op, !.obj = s, !.via = via, !.pc = pc, !.log = log,
                  !.seen = FALSE, !.cancelReq = FALSE]

\* The call of task t goes on to position pc, having done the steps `more`.
Step(t, pc, more) == [th[t] EXCEPT !.pc = pc, !.log = @ \o more]

\* No call ends in this step: th0 is the new value of th. (The Chanel is a
\* separate object, which no step of a service or of a TaskGroup touches.)
Continue(th0) ==
    /\ th' = th0
    /\ returned' = IdleThread
    /\ noted' = [u \in Threads |-> noted[u] /\ th'[u].pc = th[u].pc]
    /\ UNCHANGED <<subscribers, subVia, observed>>
    /\ UNCHANGED <<chanVars, evVars>>

\* The call of task t ends in this step, having done the steps `more`: the task
\* is free again and `returned` shows the call.
Finish(t, th0, more) ==
    /\ th' = [th0 EXCEPT ![t] = IdleThread]
    /\ returned' = [th0[t] EXCEPT !.pc = "idle", !.log = @ \o more]
    /\ noted' = [u \in Threads |-> noted[u] /\ th'[u].pc = th[u].pc]
    /\ UNCHANGED <<subscribers, subVia, observed>>
    /\ UNCHANGED <<chanVars, evVars>>

----------------------------------------------------------------------------
(* TaskGroup *)

\* TaskGroup.cancel: task.cancel() on every member of __tasks. A finished task
\* ignores the request.
GroupCancelled(ts) == [run |-> 0, cancel |-> ts.run + ts.cancel, done |-> ts.done]

\* TaskGroup.wait. `asyncio.wait(*self.__tasks)` passes the members as positional
\* arguments to asyncio.wait(fs, *, timeout, return_when): with no member the
\* call lacks fs, with one member fs is a Task and not a list, with more it has
\* too many positional arguments. Each is a TypeError, raised before the
\* coroutine suspends, and `except asyncio.CancelledError` does not catch it.
TaskGroupWait(nc, nu) ==
    IF nc = 0 /\ nu = 0 THEN "return"
    ELSE IF nc = 0 THEN "TypeError_missing_fs"
    ELSE IF nc = 1 THEN "TypeError_not_a_list"
    ELSE "TypeError_too_many_arguments"

----------------------------------------------------------------------------
(* AbscractService.start *)

\* start() up to its first suspension: the guard, __waiter.clear(), the state
\* STARTING, and the emit of the state change, which awaits a new task.
StartEnter(t, s, th0) ==
    IF is_stoped(s)
    THEN /\ waiterSet' = [waiterSet EXCEPT ![s] = FALSE]
         /\ state' = [state EXCEPT ![s] = "STARTING"]
         /\ Continue([th0 EXCEPT ![t].pc = "starting_emit",
                                 ![t].log = @ \o <<"STARTING">>])
    ELSE /\ UNCHANGED <<waiterSet, state>>
         /\ Finish(t, th0, <<"noop">>)

StartCall(t, s) ==
    /\ th[t].pc = "idle"
    /\ StartEnter(t, s, [th EXCEPT ![t] = Call(t, "start", s, "api", "idle", <<"start">>)])
    /\ UNCHANGED <<live, mainTask, registered, tasks, uncanceliable_tasks>>

\* The STARTING notification is over: __start__() is called and awaited.
StartAfterStartingEmit(t) ==
    /\ th[t].pc = "starting_emit"
    /\ Continue([th EXCEPT ![t] = Step(t, "on_start", <<>>)])
    /\ UNCHANGED <<svcVars, tasks, uncanceliable_tasks>>

\* __start__ returned: add_listener on the shutdown Event, the state RUNNING,
\* and the emit of the state change.
StartHookReturn(t) ==
    /\ th[t].pc = "on_start"
    /\ registered' = registered \cup {th[t].obj}
    /\ state' = [state EXCEPT ![th[t].obj] = "RUNNING"]
    /\ Continue([th EXCEPT ![t] =
                    Step(t, "running_emit", <<"on_start", "subscribe", "RUNNING">>)])
    /\ UNCHANGED <<live, mainTask, waiterSet, tasks, uncanceliable_tasks>>

\* __start__ raised, and start() went on to RUNNING all the same.
StartHookRaiseGoesOn(t) ==
    /\ th[t].pc = "on_start"
    /\ state' = [state EXCEPT ![th[t].obj] = "RUNNING"]
    /\ Finish(t, th, <<"on_start", "raise">>)
    /\ UNCHANGED <<live, mainTask, waiterSet, registered, tasks, uncanceliable_tasks>>

\* __start__ raised: the exception leaves start().
StartHookRaise(t) ==
    /\ th[t].pc = "on_start"
    /\ Finish(t, th, <<"on_start", "raise">>)
    /\ UNCHANGED <<svcVars, tasks, uncanceliable_tasks>>

\* The RUNNING notification is over: the main task is created, start() returns.
StartAfterRunningEmit(t) ==
    /\ th[t].pc = "running_emit"
    /\ mainTask' = [mainTask EXCEPT ![th[t].obj] = "running"]
    /\ Finish(t, th, <<"spawn_main", "return">>)
    /\ UNCHANGED <<live, state, waiterSet, registered, tasks, uncanceliable_tasks>>

----------------------------------------------------------------------------
(* AbscractService.stop *)

\* stop() up to its first suspension: the guard, the state STOPING, the emit.
StopEnter(t, s, th0) ==
    IF is_running(s)
    THEN /\ state' = [state EXCEPT ![s] = "STOPING"]
         /\ Continue([th0 EXCEPT ![t].pc = "stopping_emit",
                                 ![t].log = @ \o <<"STOPING">>])
    ELSE /\ UNCHANGED state
         /\ Finish(t, th0, <<"noop">>)

StopCall(t, s) ==
    /\ th[t].pc = "idle"
    /\ StopEnter(t, s, [th EXCEPT ![t] = Call(t, "stop", s, "api", "idle", <<"stop">>)])
    /\ UNCHANGED <<live, mainTask, waiterSet, registered, tasks, uncanceliable_tasks>>

\* The STOPING notification is over, and stop() goes on to __stop__() without
\* remove_listener.
StopAfterStoppingEmitKeepsListener(t) ==
    /\ th[t].pc = "stopping_emit"
    /\ Continue([th EXCEPT ![t] = Step(t, "on_stop", <<"unsubscribe">>)])
    /\ UNCHANGED <<svcVars, tasks, uncanceliable_tasks>>

\* The STOPING notification is over: remove_listener on the shutdown Event, then
\* __stop__() is called and awaited.
StopAfterStoppingEmit(t) ==
    /\ th[t].pc = "stopping_emit"
    /\ registered' = registered \ {th[t].obj}
    /\ Continue([th EXCEPT ![t] = Step(t, "on_stop", <<"unsubscribe">>)])
    /\ UNCHANGED <<live, state, mainTask, waiterSet, tasks, uncanceliable_tasks>>

\* stop() from the completion of the main task on: TaskGroup.cancel,
\* TaskGroup.wait, __main = None, the state STOPED and the emit.
StopTail(t, s, before) ==
    LET cancelled == GroupCancelled(tasks[s])
        outcome == TaskGroupWait(SetLen(cancelled), SetLen(uncanceliable_tasks[s]))
    IN  /\ tasks' = [tasks EXCEPT ![s] = cancelled]
        /\ UNCHANGED <<live, uncanceliable_tasks, waiterSet, registered>>
        /\ IF outcome = "return"
           THEN /\ mainTask' = [mainTask EXCEPT ![s] = "none"]
                /\ state' = [state EXCEPT ![s] = "STOPED"]
                /\ Continue([u \in Threads |->
                               IF u = t
                               THEN Step(t, "stopped_emit",
                                         before \o <<"join_main", "cancel", "drain",
                                                     "clear_main", "STOPED">>)
                               ELSE IF th[u].obj = s /\ th[u].pc \in {"waiting", "woken"}
                               THEN [th[u] EXCEPT !.seen = TRUE]
                               ELSE th[u]])
           ELSE /\ UNCHANGED <<mainTask, state>>
                /\ Finish(t, th, before \o <<"join_main", "cancel", outcome, "raise">>)

\* __stop__ returned: `await self.__main`. Awaiting None is a TypeError, awaiting
\* a finished task does not suspend.
StopHookReturn(t) ==
    /\ th[t].pc = "on_stop"
    /\ LET s == th[t].obj
       IN  CASE mainTask[s] = "none" ->
                  /\ Finish(t, th, <<"on_stop", "TypeError_await_None", "raise">>)
                  /\ UNCHANGED <<svcVars, tasks, uncanceliable_tasks>>
             [] mainTask[s] = "running" ->
                  /\ Continue([th EXCEPT ![t] = Step(t, "join_main", <<"on_stop">>)])
                  /\ UNCHANGED <<svcVars, tasks, uncanceliable_tasks>>
             [] mainTask[s] = "done" -> StopTail(t, s, <<"on_stop">>)

\* __stop__ raised: the exception leaves stop().
StopHookRaise(t) ==
    /\ th[t].pc = "on_stop"
    /\ Finish(t, th, <<"on_stop", "raise">>)
    /\ UNCHANGED <<svcVars, tasks, uncanceliable_tasks>>

\* The main task the stop() awaits has finished.
StopMainJoined(t) ==
    /\ th[t].pc = "join_main"
    /\ mainTask[th[t].obj] = "done"
    /\ StopTail(t, th[t].obj, <<>>)

\* The STOPED notification is over: __waiter.set() wakes every wait(). A
\* restart() goes on with start() without suspending in between.
StopAfterStoppedEmit(t) ==
    /\ th[t].pc = "stopped_emit"
    /\ LET s == th[t].obj
           woken == [u \in Threads |->
                       IF th[u].obj = s /\ th[u].pc = "waiting"
                       THEN [th[u] EXCEPT !.pc = "woken"]
                       ELSE th[u]]
       IN  IF th[t].op = "restart" /\ is_stoped(s)
           THEN /\ waiterSet' = [waiterSet EXCEPT ![s] = FALSE]
                /\ state' = [state EXCEPT ![s] = "STARTING"]
                /\ Continue([woken EXCEPT ![t].pc = "starting_emit",
                                          ![t].log = @ \o <<"release", "STARTING">>])
           ELSE /\ waiterSet' = [waiterSet EXCEPT ![s] = TRUE]
                /\ UNCHANGED state
                /\ Finish(t, woken, IF th[t].op = "restart"
                                    THEN <<"release", "noop">>
                                    ELSE <<"release", "return">>)
    /\ UNCHANGED <<live, mainTask, registered, tasks, uncanceliable_tasks>>

----------------------------------------------------------------------------
(* AbscractService.restart and AbscractService.wait *)

\* restart(): when running, stop() and then start(), in the calling task.
RestartCall(t, s) ==
    /\ th[t].pc = "idle"
    /\ StopEnter(t, s, [th EXCEPT ![t] = Call(t, "restart", s, "api", "idle", <<"restart">>)])
    /\ UNCHANGED <<live, mainTask, waiterSet, registered, tasks, uncanceliable_tasks>>

\* wait(): when running, asyncio.Event.wait(), which returns at once when the
\* flag is set.
WaitCall(t, s) ==
    /\ th[t].pc = "idle"
    /\ IF is_running(s)
       THEN IF waiterSet[s]
            THEN Finish(t, [th EXCEPT ![t] = Call(t, "wait", s, "api", "idle", <<"wait">>)],
                        <<"return">>)
            ELSE Continue([th EXCEPT ![t] = Call(t, "wait", s, "api", "waiting", <<"wait">>)])
       ELSE Finish(t, [th EXCEPT ![t] = Call(t, "wait", s, "api", "idle", <<>>)],
                   <<"noop">>)
    /\ UNCHANGED <<svcVars, tasks, uncanceliable_tasks>>

\* A wait() woken by __waiter.set() returns.
WaitReturn(t) ==
    /\ th[t].pc = "woken"
    /\ Finish(t, th, <<"return">>)
    /\ UNCHANGED <<svcVars, tasks, uncanceliable_tasks>>

----------------------------------------------------------------------------
(* The shutdown Event *)

\* Event.__emit__ of the shutdown Event: every registered listener
\* (AbscractService.__on_shutdown) is called and returns the coroutine stop(),
\* for which a task is created.
\* Every emit creates these tasks, whatever the tasks of an earlier emit are
\* doing; the emit is left out only when more tasks would be unfinished than
\* ListenerTasks has names for.
FreeListenerTasks == SelectSeq(ListenerOrder, LAMBDA t : th[t].pc = "idle")

RegisteredServices == SelectSeq(ServiceOrder, LAMBDA s : s \in registered)

ShutdownEmit ==
    /\ registered # {}
    /\ Len(RegisteredServices) <= Len(FreeListenerTasks)
    /\ Continue([t \in Threads |->
                   IF \E i \in 1..Len(RegisteredServices) : FreeListenerTasks[i] = t
                   THEN Call(t, "stop",
                             RegisteredServices[CHOOSE i \in 1..Len(RegisteredServices) :
                                                    FreeListenerTasks[i] = t],
                             "signal", "ready", <<"stop">>)
                   ELSE th[t]])
    /\ UNCHANGED <<svcVars, tasks, uncanceliable_tasks>>

\* The task of a listener's stop() runs its first step.
ListenerStopRun(t) ==
    /\ th[t].pc = "ready"
    /\ StopEnter(t, th[t].obj, th)
    /\ UNCHANGED <<live, mainTask, waiterSet, registered, tasks, uncanceliable_tasks>>

----------------------------------------------------------------------------
(* The main task and the auxiliary tasks *)

\* __work__ of the examples: `while self.is_running: ...`, so the main task
\* finishes once the state is not RUNNING.
MainFinish(s) ==
    /\ mainTask[s] = "running"
    /\ ~is_running(s)
    /\ mainTask' = [mainTask EXCEPT ![s] = "done"]
    /\ Continue(th)
    /\ UNCHANGED <<live, state, waiterSet, registered, tasks, uncanceliable_tasks>>

GroupBound(o) == IF o = "g" THEN MaxGroupTasks ELSE MaxAux

\* TaskGroup.create_task
create_task(o, canceliable) ==
    /\ SetLen(tasks[o]) + SetLen(uncanceliable_tasks[o]) < GroupBound(o)
    /\ IF canceliable
       THEN /\ tasks' = [tasks EXCEPT ![o].run = @ + 1]
            /\ UNCHANGED uncanceliable_tasks
       ELSE /\ uncanceliable_tasks' = [uncanceliable_tasks EXCEPT ![o].run = @ + 1]
            /\ UNCHANGED tasks
    /\ Continue(th)
    /\ UNCHANGED svcVars

\* A member task finishes, by itself or because it was cancelled.
TaskFinish(o, canceliable, status) ==
    /\ status \in {"run", "cancel"}
    /\ IF canceliable
       THEN /\ tasks[o][status] > 0
            /\ tasks' = [tasks EXCEPT ![o][status] = @ - 1, ![o].done = @ + 1]
            /\ UNCHANGED uncanceliable_tasks
       ELSE /\ uncanceliable_tasks[o][status] > 0
            /\ uncanceliable_tasks' =
                   [uncanceliable_tasks EXCEPT ![o][status] = @ - 1, ![o].done = @ + 1]
            /\ UNCHANGED tasks
    /\ Continue(th)
    /\ UNCHANGED svcVars

\* The done callback of a finished member removes it from its set.
TaskDoneCallback(o, canceliable) ==
    /\ IF canceliable
       THEN /\ tasks[o].done > 0
            /\ tasks' = [tasks EXCEPT ![o].done = @ - 1]
            /\ UNCHANGED uncanceliable_tasks
       ELSE /\ uncanceliable_tasks[o].done > 0
            /\ uncanceliable_tasks' = [uncanceliable_tasks EXCEPT ![o].done = @ - 1]
            /\ UNCHANGED tasks
    /\ Continue(th)
    /\ UNCHANGED svcVars

\* TaskGroup.cancel, called on its own: on a TaskGroup, or on a service, which
\* inherits it.
GroupCancelCall(o) ==
    /\ tasks[o].run > 0
    /\ tasks' = [tasks EXCEPT ![o] = GroupCancelled(tasks[o])]
    /\ Continue(th)
    /\ UNCHANGED <<svcVars, uncanceliable_tasks>>

----------------------------------------------------------------------------
(* The service specification *)

ThreadStep(t) ==
    \/ StartAfterStartingEmit(t)
    \/ StartHookReturn(t)
    \/ StartAfterRunningEmit(t)
    \/ StopAfterStoppingEmit(t)
    \/ StopHookReturn(t)
    \/ StopMainJoined(t)
    \/ StopAfterStoppedEmit(t)
    \/ WaitReturn(t)
    \/ ListenerStopRun(t)

HookFailure(t) ==
    \/ StartHookRaise(t)
    \/ StopHookRaise(t)

ApiCall(t, s) ==
    \/ StartCall(t, s)
    \/ StopCall(t, s)
    \/ RestartCall(t, s)
    \/ WaitCall(t, s)

AuxStep(s) ==
    \/ \E c \in BOOLEAN : create_task(s, c)
    \/ \E c \in BOOLEAN, st \in {"run", "cancel"} : TaskFinish(s, c, st)
    \/ \E c \in BOOLEAN : TaskDoneCallback(s, c)

Next ==
    \/ \E t \in Users, s \in live : ApiCall(t, s)
    \/ \E t \in Threads : ThreadStep(t)
    \/ \E t \in Threads : HookFailure(t)
    \/ ShutdownEmit
    \/ \E s \in live : MainFinish(s)
    \/ \E s \in live : AuxStep(s)
    \/ \E s \in live : GroupCancelCall(s)

Spec == Init /\ [][Next]_vars

----------------------------------------------------------------------------
(* Two services and the shutdown signal, under fair scheduling *)

InitTwo == InitOf({"a", "b"}) /\ InitChanel({}, {0}, {TRUE})

\* The users call start() and wait() and never stop(): only the shutdown signal
\* stops a service. No hook fails and no auxiliary task is spawned.
NextShutdown ==
    \/ \E t \in Users, s \in live : StartCall(t, s) \/ WaitCall(t, s)
    \/ \E t \in Threads : ThreadStep(t)
    \/ ShutdownEmit
    \/ \E s \in live : MainFinish(s)

\* The event loop runs every task that is ready: a notification, a hook and the
\* main task, once they can go on, do go on.
FairShutdown ==
    /\ InitTwo
    /\ [][NextShutdown]_vars
    /\ \A t \in Threads : WF_vars(ThreadStep(t))
    /\ \A s \in Svc : WF_vars(MainFinish(s))

----------------------------------------------------------------------------
(* Two services and the observers of their state changes *)

\* The orders in which a set can be iterated.
Orders(S) ==
    {p \in [1..Cardinality(S) -> S] : \A i, j \in 1..Cardinality(S) :
                                          p[i] = p[j] => i = j}

\* The state a suspended __set_state(state) has passed to emit().
EmitState == [starting_emit |-> "STARTING", running_emit |-> "RUNNING",
              stopping_emit |-> "STOPING", stopped_emit |-> "STOPED"]

InEmit(t) == th[t].pc \in DOMAIN EmitState

\* AbscractService.subscribe(callback) on service s: add_listener on
\* __on_state_change, the Event created once in the class body.
subscribe(o, s) ==
    /\ s \notin subVia[o] \/ o \notin subscribers
    /\ subscribers' = subscribers \cup {o}
    /\ subVia' = [subVia EXCEPT ![o] = @ \cup {s}]
    /\ returned' = IdleThread
    /\ UNCHANGED <<live, state, mainTask, waiterSet, registered, tasks,
                   uncanceliable_tasks, th, observed, noted, chanVars, evVars>>

\* AbscractService.unsubscribe(callback) on service s: remove_listener on the
\* same Event, whichever service's subscribe() the callback was given to.
unsubscribe(o, s) ==
    /\ o \in subscribers
    /\ subscribers' = subscribers \ {o}
    /\ returned' = IdleThread
    /\ UNCHANGED <<live, state, mainTask, waiterSet, registered, tasks,
                   uncanceliable_tasks, th, subVia, observed, noted, chanVars, evVars>>

\* What a function given to subscribe() does when it is called: it returns,
\* raises a BaseException (asyncio.CancelledError), or calls unsubscribe() of
\* itself or subscribe() of itself on a service, and returns. (An Exception it
\* raises is caught in the loop of __emit__: to the service it has returned.)
ObserverActs ==
    {<<"return", "none">>, <<"raise_base", "none">>, <<"unsubscribe", "none">>}
    \cup ({"subscribe"} \X live)

\* One turn of the loop of Event.__emit__ on __on_state_change, for observer o
\* called with note = (self, state). When the call has changed the size of the
\* set of listeners, the next step of the iteration raises RuntimeError outside
\* the try, and the TaskGroup ends with an ExceptionGroup; a BaseException
\* leaves the loop as it is.
CallObserver(st, o, act, note) ==
    LET subs == CASE act[1] = "unsubscribe" -> st.subs \ {o}
                  [] act[1] = "subscribe" -> st.subs \cup {o}
                  [] OTHER -> st.subs
    IN  [st EXCEPT !.subs = subs,
                   !.via[o] = IF act[1] = "subscribe" THEN @ \cup {act[2]} ELSE @,
                   !.observed[o] = note,
                   !.res = CASE act[1] = "raise_base" -> "CancelledError"
                             [] Cardinality(subs) # Cardinality(st.subs) -> "ExceptionGroup"
                             [] OTHER -> "none"]

\* `for listener in self.__listeners__` on __on_state_change, from position i
\* of the order of the iteration.
RECURSIVE IterateObservers(_, _, _, _, _)
IterateObservers(order, act, i, st, note) ==
    IF st.res # "none" \/ i > Len(order) THEN st
    ELSE IterateObservers(order, act, i + 1,
                          CallObserver(st, order[i], act[order[i]], note), note)

\* The task of Event.__emit__ that a suspended __set_state awaits runs: the
\* listeners of __on_state_change are called with (self, state), in the order
\* of the set. When the loop is left by an exception the emit() raises it, and
\* so does the __set_state that awaits it.
Deliver(t) ==
    /\ InEmit(t) /\ ~noted[t]
    /\ \E order \in Orders(subscribers), act \in [subscribers -> ObserverActs] :
          LET st == IterateObservers(order, act, 1,
                                     [subs |-> subscribers, via |-> subVia,
                                      observed |-> observed, res |-> "none"],
                                     <<th[t].obj, EmitState[th[t].pc]>>)
          IN  /\ subscribers' = st.subs
              /\ subVia' = st.via
              /\ observed' = st.observed
              /\ IF st.res = "none"
                 THEN /\ noted' = [noted EXCEPT ![t] = TRUE]
                      /\ th' = th
                 ELSE /\ noted' = noted
                      /\ th' = [th EXCEPT ![t] = Step(t, "emit_raised", <<>>)]
    /\ returned' = IdleThread
    /\ UNCHANGED <<live, state, mainTask, waiterSet, registered, tasks,
                   uncanceliable_tasks, chanVars, evVars>>

\* `await self.__set_state(...)` raises what the emit raised: the exception
\* leaves start() or stop() there, with the state as __set_state has set it and
\* nothing done of what follows the await.
SetStateRaise(t) ==
    /\ th[t].pc = "emit_raised"
    /\ Finish(t, th, <<"raise">>)
    /\ UNCHANGED <<svcVars, tasks, uncanceliable_tasks>>

\* A call suspended in __set_state goes on when the task of the emit is done.
ObsStep(t) ==
    /\ InEmit(t) => noted[t]
    /\ ThreadStep(t)

\* The calls of start() and stop() the users make: both users call service
\* "b", one of them service "a" as well, so that calls on one service and
\* calls on two services overlap.
ObsCalls == {<<"t1", "a">>, <<"t1", "b">>, <<"t2", "b">>}

NextObs ==
    \/ \E c \in ObsCalls : StartCall(c[1], c[2]) \/ StopCall(c[1], c[2])
    \/ \E t \in Threads : ObsStep(t)
    \/ \E t \in Threads : Deliver(t)
    \/ \E t \in Threads : SetStateRaise(t)
    \/ \E s \in live : MainFinish(s)
    \/ \E o \in Observers, s \in live : subscribe(o, s)
    \/ \E o \in Observers, s \in live : unsubscribe(o, s)

SpecObs == InitTwo /\ [][NextObs]_vars

----------------------------------------------------------------------------
(* One service whose hooks return and whose tasks terminate, under fair
   scheduling *)

\* A member task of the TaskGroup of s ends, and its done callback runs.
AuxEnd(s) ==
    \/ \E c \in BOOLEAN, st \in {"run", "cancel"} : TaskFinish(s, c, st)
    \/ \E c \in BOOLEAN : TaskDoneCallback(s, c)

NextStop ==
    \/ \E t \in Users, s \in live : ApiCall(t, s)
    \/ \E t \in Threads : ThreadStep(t)
    \/ ShutdownEmit
    \/ \E s \in live : MainFinish(s)
    \/ \E s \in live : \E c \in BOOLEAN : create_task(s, c)
    \/ \E s \in live : AuxEnd(s)
    \/ \E s \in live : GroupCancelCall(s)

\* The event loop runs every task that is ready; the main task ends once the
\* state is not RUNNING; every auxiliary task ends.
FairStop ==
    /\ Init
    /\ [][NextStop]_vars
    /\ \A t \in Threads : WF_vars(ThreadStep(t))
    /\ \A s \in Svc : WF_vars(MainFinish(s))
    /\ \A s \in Svc : WF_vars(AuxEnd(s))

----------------------------------------------------------------------------
(* The TaskGroup on its own *)

\* asyncio.create_task(group.wait()): the task of the wait is created.
GroupWaitCall(t, o) ==
    /\ th[t].pc = "idle"
    /\ Continue([th EXCEPT ![t] = Call(t, "group_wait", o, "api", "wait_ready", <<"wait">>)])
    /\ UNCHANGED <<svcVars, tasks, uncanceliable_tasks>>

\* task.cancel() on the task of a wait. TaskGroup.wait never suspends (it
\* returns or raises in its first step), so the request can only arrive before
\* that step.
CancelWaiter(t) ==
    /\ th[t].pc = "wait_ready"
    /\ ~th[t].cancelReq
    /\ Continue([th EXCEPT ![t].cancelReq = TRUE])
    /\ UNCHANGED <<svcVars, tasks, uncanceliable_tasks>>

\* The task of a wait runs. A task cancelled before its first step gets the
\* CancelledError thrown into the coroutine before any of its code has run.
GroupWaitRun(t) ==
    /\ th[t].pc = "wait_ready"
    /\ LET o == th[t].obj
           outcome == TaskGroupWait(SetLen(tasks[o]), SetLen(uncanceliable_tasks[o]))
           members == IF outcome = "return" THEN <<>> ELSE <<"members">>
       IN  Finish(t, th, members \o
                         (IF th[t].cancelReq THEN <<"CancelledError", "raise">>
                          ELSE IF outcome = "return" THEN <<"return">>
                          ELSE <<outcome, "raise">>))
    /\ UNCHANGED <<svcVars, tasks, uncanceliable_tasks>>

InitGroup == InitOf({}) /\ InitChanel({}, {0}, {TRUE})

NextGroup ==
    \/ \E t \in Users : GroupWaitCall(t, "g")
    \/ \E t \in Users : CancelWaiter(t)
    \/ \E t \in Users : GroupWaitRun(t)
    \/ GroupCancelCall("g")
    \/ AuxStep("g")

SpecGroup == InitGroup /\ [][NextGroup]_vars

----------------------------------------------------------------------------
(* An Event on its own *)

\* Every step of the Event leaves the services and the Chanel alone, and, except
\* for add_listener, remove_listener and close, is no call of these.
EventStep(res) ==
    /\ evRes' = res
    /\ UNCHANGED <<svcOnly, chanVars, kind>>

\* Event.add_listener
add_listener(l) ==
    /\ IF ev_closed
       THEN /\ EventStep(<<"add_listener", "EventClosedError">>)
            /\ UNCHANGED ev_listeners
       ELSE /\ EventStep(<<"add_listener", "ok">>)
            /\ ev_listeners' = ev_listeners \cup {l}
    /\ UNCHANGED <<ev_closed, em>>

\* Event.remove_listener: set.discard
remove_listener(l) ==
    /\ EventStep(<<"remove_listener", "ok">>)
    /\ ev_listeners' = ev_listeners \ {l}
    /\ UNCHANGED <<ev_closed, em>>

\* Event.close, which leaves the listeners registered.
EventCloseKeepsListeners ==
    /\ EventStep(<<"close", "ok">>)
    /\ ev_closed' = TRUE
    /\ UNCHANGED <<ev_listeners, em>>

\* Event.close
EventClose ==
    /\ EventStep(<<"close", "ok">>)
    /\ ev_closed' = TRUE
    /\ ev_listeners' = IF ev_closed THEN ev_listeners ELSE {}
    /\ UNCHANGED em

\* Event.emit up to its suspension: the closed check, then the task of
\* __emit__ is created and awaited.
emit(e) ==
    /\ em[e].pc = "idle"
    /\ em' = [em EXCEPT ![e] =
                 IF ev_closed
                 THEN [IdleEmit EXCEPT !.res = "EventClosedError"]
                 ELSE [IdleEmit EXCEPT !.pc = "task"]]
    /\ EventStep(NoCall)
    /\ UNCHANGED <<ev_listeners, ev_closed>>

\* Event.__async_emit_wrapper__: how the task of an awaitable listener ends
\* when the listener returns, raises an Exception (`except Exception: pass`) or
\* raises asyncio.CancelledError, which is no Exception and cancels the task.
async_emit_wrapper(outcome) ==
    CASE outcome = "raise" -> "raised"
      [] outcome = "cancel" -> "cancelled"
      [] OTHER -> "returned"

\* What a function registered as a listener does when it is called: it returns,
\* raises an Exception, raises a BaseException (asyncio.CancelledError), or
\* calls remove_listener, add_listener or close of the Event and returns.
SyncActs ==
    {<<"return", "none">>, <<"raise", "none">>, <<"raise_base", "none">>,
     <<"close", "none">>}
    \cup ({"remove", "add"} \X Listeners)

\* One turn of the loop of __emit__ for listener l, from the state st of the
\* iteration. A coroutine function returns a coroutine, for which a task is
\* created. A function runs to its end inside `try ... except Exception: pass`:
\* what it does to the Event happens, an Exception of its own or of
\* add_listener (EventClosedError) is caught, a BaseException leaves the loop.
\* When the call has changed the size of __listeners__, the next step of the
\* iteration raises RuntimeError, outside the try: the TaskGroup ends with an
\* ExceptionGroup.
CallListener(st, l, act) ==
    IF kind[l] = "async" THEN [st EXCEPT !.run[l] = "ready"]
    ELSE
      LET ls == CASE act[1] = "remove" -> st.ls \ {act[2]}
                  [] act[1] = "add" /\ ~st.closed -> st.ls \cup {act[2]}
                  [] act[1] = "close" /\ ~st.closed -> {}
                  [] OTHER -> st.ls
          raised == act[1] = "raise" \/ (act[1] = "add" /\ st.closed)
      IN  [st EXCEPT !.ls = ls,
                     !.closed = @ \/ act[1] = "close",
                     !.inv[l] = @ + 1,
                     !.run[l] = CASE act[1] = "raise_base" -> "escaped"
                                  [] raised -> "raised"
                                  [] OTHER -> "returned",
                     !.res = CASE act[1] = "raise_base" -> "CancelledError"
                               [] Cardinality(ls) # Cardinality(st.ls) -> "ExceptionGroup"
                               [] OTHER -> "none"]

\* `for listener in self.__listeners__` from position i of the order of the
\* iteration: the loop ends at the end of the set or with what left it.
RECURSIVE Iterate(_, _, _, _)
Iterate(order, act, i, st) ==
    IF st.res # "none" \/ i > Len(order) THEN st
    ELSE Iterate(order, act, i + 1, CallListener(st, order[i], act[order[i]]))

\* Event.__emit__, the first step of its task: the loop over the set
\* __listeners__ itself, in the order of the set, with no suspension inside.
\* With no task and no exception the TaskGroup exits at once; with an exception
\* from the loop it cancels the tasks created so far and waits for them.
EmitRun(e) ==
    /\ em[e].pc = "task"
    /\ \E order \in Orders(ev_listeners), act \in [ev_listeners -> SyncActs] :
          LET st == Iterate(order, act, 1,
                            [ls |-> ev_listeners, closed |-> ev_closed,
                             run |-> IdleEmit.run, inv |-> IdleEmit.inv,
                             res |-> "none"])
          IN  /\ em' = [em EXCEPT ![e].snap = ev_listeners,
                                   ![e].run = st.run,
                                   ![e].inv = st.inv,
                                   ![e].res = st.res,
                                   ![e].pc = IF \E l \in Listeners : st.run[l] = "ready"
                                             THEN "group" ELSE "done"]
              /\ ev_listeners' = st.ls
              /\ ev_closed' = st.closed
    /\ EventStep(NoCall)

\* The task of an awaitable listener runs its first step. In a TaskGroup that
\* goes on the listener's body begins, and suspends, returns or raises; in one
\* that an exception from the loop has ended the task was cancelled before it
\* began, and the body never runs.
ListenerStart(e, l) ==
    /\ em[e].run[l] = "ready"
    /\ IF em[e].res # "none"
       THEN em' = [em EXCEPT ![e].run[l] = "cancelled"]
       ELSE \E next \in {"suspended", async_emit_wrapper("return"),
                          async_emit_wrapper("raise"), async_emit_wrapper("cancel")} :
               em' = [em EXCEPT ![e].run[l] = next, ![e].inv[l] = @ + 1]
    /\ EventStep(NoCall)
    /\ UNCHANGED <<ev_listeners, ev_closed>>

\* A suspended listener goes on and returns or raises.
ListenerResume(e, l) ==
    /\ em[e].run[l] = "suspended"
    /\ \E outcome \in {"return", "raise", "cancel"} :
          em' = [em EXCEPT ![e].run[l] = async_emit_wrapper(outcome)]
    /\ EventStep(NoCall)
    /\ UNCHANGED <<ev_listeners, ev_closed>>

\* Every task of the TaskGroup of __emit__ has ended: the TaskGroup exits, with
\* what left the loop if anything did, and the task of __emit__ ends. (No task
\* fails: the wrapper catches every Exception, and a cancelled task is no
\* error to the TaskGroup.)
EmitGroupExit(e) ==
    /\ em[e].pc = "group"
    /\ \A l \in Listeners : em[e].run[l] \notin {"ready", "suspended"}
    /\ em' = [em EXCEPT ![e].pc = "done"]
    /\ EventStep(NoCall)
    /\ UNCHANGED <<ev_listeners, ev_closed>>

\* The task of __emit__ is done: emit() returns, or raises what the task raised.
EmitReturn(e) ==
    /\ em[e].pc = "done"
    /\ em' = [em EXCEPT ![e].pc = "idle", ![e].res = IF @ = "none" THEN "ok" ELSE @]
    /\ EventStep(NoCall)
    /\ UNCHANGED <<ev_listeners, ev_closed>>

\* An Event whose listeners are functions or coroutine functions.
InitEvent ==
    InitKinds({}, [Listeners -> {"sync", "async"}]) /\ InitChanel({}, {0}, {TRUE})

NextEvent ==
    \/ \E l \in Listeners : add_listener(l)
    \/ \E l \in Listeners : remove_listener(l)
    \/ EventClose
    \/ \E e \in Emitters : emit(e)
    \/ \E e \in Emitters : EmitRun(e)
    \/ \E e \in Emitters, l \in Listeners : ListenerStart(e, l)
    \/ \E e \in Emitters, l \in Listeners : ListenerResume(e, l)
    \/ \E e \in Emitters : EmitGroupExit(e)
    \/ \E e \in Emitters : EmitReturn(e)

SpecEvent == InitEvent /\ [][NextEvent]_vars

----------------------------------------------------------------------------
(* Chanel and ChanelCustomer *)

\* The item of publisher p's k-th send().
Item(p, k) == <<p, k>>

Connected == {customers[i] : i \in 1..Len(customers)}

\* asyncio.Queue.full() of the buffer, which makes put_nowait raise QueueFull:
\* a maxsize of 0 is an unbounded queue.
FullNever(s) == FALSE
Full(s) == size[s] > 0 /\ Len(buffer[s]) >= size[s]

\* Where put_nowait puts the item: at the end of the queue.
PutFirst(q, item) == <<item>> \o q
Put(q, item) == Append(q, item)

\* self.__buffer.put_nowait(data): the item is queued and a suspended get() is
\* woken.
put_nowait(s, item) ==
    /\ buffer' = [buffer EXCEPT ![s] = Put(@, item)]
    /\ rd' = [rd EXCEPT ![s] = IF @ = "getting" THEN "woken" ELSE @]

\* self.__buffer.get_nowait(): the first item is taken and the first suspended
\* put() is woken.
get_nowait(s) ==
    /\ buffer' = [buffer EXCEPT ![s] = Tail(@)]
    /\ recv' = [recv EXCEPT ![s] = Append(@, Head(buffer[s]))]
    /\ readSince' = [p \in Pubs |->
                       IF pub[p].pc = "sending" THEN readSince[p] \cup {s}
                       ELSE readSince[p]]
    /\ IF putters[s] = <<>>
       THEN UNCHANGED <<putters, deliv>>
       ELSE /\ putters' = [putters EXCEPT ![s] = Tail(@)]
            /\ deliv' = [deliv EXCEPT ![Head(putters[s])][s] = "woken"]

\* Chanel.connect(size=sz); sz = MaxSize + 1 stands for size=None, which takes
\* the size of the Chanel.
connect(s, sz) ==
    /\ rd[s] = "none"
    /\ customers' = Append(customers, s)
    /\ size' = [size EXCEPT ![s] = IF sz = MaxSize + 1 THEN chanel_size ELSE sz]
    /\ rd' = [rd EXCEPT ![s] = "idle"]
    /\ missed' = [missed EXCEPT ![s] = pub["p1"].sent + pub["p2"].sent]
    /\ UNCHANGED <<closeRes, pubs, strict, chanel_size, buffer, cloused, putters, deliv, pub,
                   recv, fullAtCall, readSince>>
    /\ UNCHANGED svcAll

\* Chanel.is_closed: no customer is connected.
is_closed_never == FALSE
is_closed == customers = <<>>

\* Chanel.send(data) up to its suspension: the strict check, and a task of
\* _send(data) for every customer. With no customer the TaskGroup has nothing
\* to wait for and send() returns.
send(p) ==
    /\ pub[p].pc = "idle"
    /\ pub[p].sent < MaxSends
    /\ IF strict /\ is_closed
       THEN /\ pub' = [pub EXCEPT ![p].sent = @ + 1, ![p].res = "ChanelCloused"]
            /\ UNCHANGED <<deliv, fullAtCall, readSince>>
       ELSE IF customers = <<>>
       THEN /\ pub' = [pub EXCEPT ![p].sent = @ + 1, ![p].res = "ok"]
            /\ UNCHANGED <<deliv, fullAtCall, readSince>>
       ELSE /\ pub' = [pub EXCEPT ![p].sent = @ + 1, ![p].res = "none",
                                  ![p].pc = "sending"]
            /\ deliv' = [deliv EXCEPT ![p] =
                           [s \in Subs |-> IF s \in Connected THEN "ready" ELSE "none"]]
            /\ fullAtCall' = [fullAtCall EXCEPT ![p] = {s \in Connected : Full(s)}]
            /\ readSince' = [readSince EXCEPT ![p] = {}]
    /\ UNCHANGED <<closeRes, pubs, strict, chanel_size, customers, size, buffer, cloused, putters,
                   rd, recv, missed>>
    /\ UNCHANGED svcAll

\* ChanelCustomer._send(data), the first step of its task: put_nowait, and on
\* QueueFull `await self.__buffer.put(data)`, which suspends.
_send(p, s) ==
    /\ deliv[p][s] = "ready"
    /\ IF cloused[s]
       THEN /\ deliv' = [deliv EXCEPT ![p][s] = "done"]
            /\ UNCHANGED <<buffer, rd, putters>>
       ELSE IF ~Full(s)
       THEN /\ put_nowait(s, Item(p, pub[p].sent))
            /\ deliv' = [deliv EXCEPT ![p][s] = "done"]
            /\ UNCHANGED putters
       ELSE /\ putters' = [putters EXCEPT ![s] = Append(@, p)]
            /\ deliv' = [deliv EXCEPT ![p][s] = "putting"]
            /\ UNCHANGED <<buffer, rd>>
    /\ UNCHANGED <<closeRes, pubs, strict, chanel_size, customers, size, cloused, pub, recv,
                   missed, fullAtCall, readSince>>
    /\ UNCHANGED svcAll

\* A woken `await self.__buffer.put(data)` goes on: asyncio.Queue.put loops
\* while the queue is full, then put_nowait.
PutResume(p, s) ==
    /\ deliv[p][s] = "woken"
    /\ IF Full(s)
       THEN /\ putters' = [putters EXCEPT ![s] = Append(@, p)]
            /\ deliv' = [deliv EXCEPT ![p][s] = "putting"]
            /\ UNCHANGED <<buffer, rd>>
       ELSE /\ put_nowait(s, Item(p, pub[p].sent))
            /\ deliv' = [deliv EXCEPT ![p][s] = "done"]
            /\ UNCHANGED putters
    /\ UNCHANGED <<closeRes, pubs, strict, chanel_size, customers, size, cloused, pub, recv,
                   missed, fullAtCall, readSince>>
    /\ UNCHANGED svcAll

\* Every task of the send() is done: the TaskGroup exits and send() returns.
SendReturn(p) ==
    /\ pub[p].pc = "sending"
    /\ \A s \in Subs : deliv[p][s] \in {"none", "done"}
    /\ pub' = [pub EXCEPT ![p].pc = "idle", ![p].res = "ok"]
    /\ deliv' = [deliv EXCEPT ![p] = [s \in Subs |-> "none"]]
    /\ UNCHANGED <<closeRes, pubs, strict, chanel_size, customers, size, buffer, cloused, putters,
                   rd, recv, missed, fullAtCall, readSince>>
    /\ UNCHANGED svcAll

\* The consumer of a customer is in no read(): it has made none yet, or its last
\* one has returned or has raised ChanelCustomerCloused.
CanRead(s) == rd[s] \in {"idle", "ChanelCustomerCloused"}

\* ChanelCustomer.read() up to its suspension: the closed check, get_nowait,
\* and on QueueEmpty `await self.__buffer.get()`.
read(s) ==
    /\ CanRead(s)
    /\ IF cloused[s] /\ buffer[s] = <<>>
       THEN /\ rd' = [rd EXCEPT ![s] = "ChanelCustomerCloused"]
            /\ UNCHANGED <<buffer, recv, readSince, putters, deliv>>
       ELSE IF buffer[s] # <<>>
       THEN /\ get_nowait(s)
            /\ rd' = [rd EXCEPT ![s] = "idle"]
       ELSE /\ rd' = [rd EXCEPT ![s] = "getting"]
            /\ UNCHANGED <<buffer, recv, readSince, putters, deliv>>
    /\ UNCHANGED <<closeRes, pubs, strict, chanel_size, customers, size, cloused, pub, missed,
                   fullAtCall>>
    /\ UNCHANGED svcAll

\* A woken `await self.__buffer.get()` goes on: asyncio.Queue.get loops while
\* the queue is empty, then get_nowait.
GetResume(s) ==
    /\ rd[s] = "woken"
    /\ IF buffer[s] = <<>>
       THEN /\ rd' = [rd EXCEPT ![s] = "getting"]
            /\ UNCHANGED <<buffer, recv, readSince, putters, deliv>>
       ELSE /\ get_nowait(s)
            /\ rd' = [rd EXCEPT ![s] = "idle"]
    /\ UNCHANGED <<closeRes, pubs, strict, chanel_size, customers, size, cloused, pub, missed,
                   fullAtCall>>
    /\ UNCHANGED svcAll

\* Chanel(strict=...) with the default size, and one publisher, which awaits
\* each send() before the next.
InitChan == InitOf({}) /\ InitChanel({"p1"}, {0}, BOOLEAN)

NextChan ==
    \/ \E s \in Subs, sz \in 0..(MaxSize + 1) : connect(s, sz) /\ UNCHANGED ready
    \/ \E p \in pubs : send(p) /\ UNCHANGED ready
    \/ \E p \in pubs, s \in Subs : _send(p, s) /\ UNCHANGED ready
    \/ \E p \in pubs, s \in Subs : PutResume(p, s) /\ UNCHANGED ready
    \/ \E p \in pubs : SendReturn(p) /\ UNCHANGED ready
    \/ \E s \in Subs : read(s) /\ UNCHANGED ready
    \/ \E s \in Subs : GetResume(s) /\ UNCHANGED ready

SpecChan == InitChan /\ [][NextChan]_vars

----------------------------------------------------------------------------
(* Chanel.disconnect and ChanelCustomer.close *)

\* list.remove(customer)
Remove(list, s) == SelectSeq(list, LAMBDA x : x # s)

Min(a, b) == IF a <= b THEN a ELSE b

\* ChanelCustomer.reset(): get_nowait() until QueueEmpty. The items are dropped,
\* and every get_nowait wakes the first suspended put() of the buffer.
reset(s) ==
    LET n == Min(Len(buffer[s]), Len(putters[s]))
    IN  /\ buffer' = [buffer EXCEPT ![s] = <<>>]
        /\ putters' = [putters EXCEPT ![s] = SubSeq(@, n + 1, Len(@))]
        /\ deliv' = [p \in Pubs |-> [t \in Subs |->
                        IF t = s /\ \E i \in 1..n : putters[s][i] = p
                        THEN "woken" ELSE deliv[p][t]]]

\* Chanel.disconnect(customer): list.remove raises ValueError when the customer
\* is not in the list.
disconnect(s) ==
    /\ rd[s] # "none"
    /\ customers' = IF s \in Connected THEN Remove(customers, s) ELSE customers
    /\ UNCHANGED <<closeRes, pubs, strict, chanel_size, size, buffer, cloused, putters, deliv, pub,
                   rd, recv, missed, fullAtCall, readSince>>
    /\ UNCHANGED svcAll

\* ChanelCustomer.reset(), called by the application on a customer that stays
\* open and connected.
ResetCall(s) ==
    /\ rd[s] # "none"
    /\ reset(s)
    /\ UNCHANGED <<closeRes, pubs, strict, chanel_size, customers, size, cloused, pub, rd,
                   recv, missed, fullAtCall, readSince>>
    /\ UNCHANGED svcAll

\* ChanelCustomer.close(): __cloused = True, then Chanel.disconnect(self), then
\* reset(). When disconnect raises, reset() is not reached.
close(s) ==
    /\ rd[s] # "none"
    /\ cloused' = [cloused EXCEPT ![s] = TRUE]
    /\ IF s \in Connected
       THEN /\ customers' = Remove(customers, s)
            /\ reset(s)
            /\ closeRes' = [closeRes EXCEPT ![s] = "close_ok"]
       ELSE /\ closeRes' = [closeRes EXCEPT ![s] = "close_ValueError"]
            /\ UNCHANGED <<customers, buffer, putters, deliv>>
    /\ UNCHANGED <<pubs, strict, chanel_size, size, pub, rd, recv, missed, fullAtCall,
                   readSince>>
    /\ UNCHANGED svcAll

\* The tasks of the Chanel that are ready to run: the event loop runs them.
ChanTask ==
    \/ \E p \in pubs, s \in Subs : _send(p, s) /\ UNCHANGED ready
    \/ \E p \in pubs, s \in Subs : PutResume(p, s) /\ UNCHANGED ready
    \/ \E p \in pubs : SendReturn(p) /\ UNCHANGED ready
    \/ \E s \in Subs : GetResume(s) /\ UNCHANGED ready

\* A strict Chanel(1), whose customers are full after one item, which is where
\* close() and reset() meet a suspended put(), and one publisher.
InitClose == InitOf({}) /\ InitChanel({"p1"}, {1}, {TRUE})

\* The customers are connected with connect(), which gives them the size of the
\* Chanel.
NextClose ==
    \/ \E s \in Subs : connect(s, MaxSize + 1) /\ UNCHANGED ready
    \/ \E p \in pubs : send(p) /\ UNCHANGED ready
    \/ \E s \in Subs : read(s) /\ UNCHANGED ready
    \/ ChanTask
    \/ \E s \in Subs : disconnect(s) /\ UNCHANGED ready
    \/ \E s \in Subs : close(s) /\ UNCHANGED ready
    \/ \E s \in Subs : ResetCall(s) /\ UNCHANGED ready

SpecClose == InitClose /\ [][NextClose]_vars

\* The event loop runs every task that is ready.
FairClose == InitClose /\ [][NextClose]_vars /\ WF_vars(ChanTask)

----------------------------------------------------------------------------
(* Two publishers of one Chanel, and the order of the event loop *)

\* loop.call_soon: the callbacks are run in the order in which they were
\* registered. `ready` holds the first step of a task, the wake-up of a
\* suspended put() or get(), and the tasks of the application that are about to
\* call send() or read(). A task of the application that is running, because a
\* call of its own has just returned to it, makes its next call in the same
\* callback, ahead of everything in `ready`.
Scheduled(c) == \E i \in 1..Len(ready) : ready[i] = c

\* The loop runs its first callback, which registers the callbacks `made`.
RunNext(c, made) ==
    /\ ready # <<>>
    /\ Head(ready) = c
    /\ ready' = Tail(ready) \o made

\* group.create_task(customer._send(data)) for every customer, in the order of
\* the list.
SendTasks(p) ==
    IF strict /\ is_closed THEN <<>>
    ELSE [i \in 1..Len(customers) |-> <<"_send", p, customers[i]>>]

\* asyncio.Queue._wakeup_next(self._getters) of put_nowait: the suspended get()
\* is made ready.
WokenGetter(s) == IF rd[s] = "getting" THEN << <<"get", s>> >> ELSE <<>>

\* asyncio.Queue._wakeup_next(self._putters) of get_nowait: the first suspended
\* put() is made ready.
WokenPutter(s) ==
    IF buffer[s] # <<>> /\ putters[s] # <<>>
    THEN << <<"put", Head(putters[s]), s>> >> ELSE <<>>

\* A task of the application becomes ready; its next step is the call c.
AppTask(c) ==
    /\ ~Scheduled(c)
    /\ ready' = Append(ready, c)
    /\ UNCHANGED <<svcAll, chanData>>

\* The number of send() calls made or about to be made.
Sends ==
    pub["p1"].sent + pub["p2"].sent + Cardinality({p \in pubs : Scheduled(<<"send", p>>)})

\* A publisher that is not in a send() is about to call send(); the publishers
\* make MaxSends calls between them.
SendTask(p) == pub[p].pc = "idle" /\ Sends < MaxSends /\ AppTask(<<"send", p>>)

\* The consumer of a customer is about to call read().
ReadTask(s) == CanRead(s) /\ AppTask(<<"read", s>>)

\* connect() is called by a task of the application that is running.
LoopConnect(s) == connect(s, MaxSize + 1) /\ UNCHANGED ready

\* send() is called again in the callback in which the publisher's task went
\* on: `await chanel.send(x); await chanel.send(y)`.
DirectSend(p) ==
    /\ ~Scheduled(<<"send", p>>) /\ Sends < MaxSends
    /\ ready' = ready \o SendTasks(p)
    /\ send(p)

\* read() is called again in the callback in which the consumer's task went on:
\* a read() that finds an item does not suspend, as in __anext__ under
\* `async for`.
DirectRead(s) ==
    /\ ~Scheduled(<<"read", s>>)
    /\ ready' = ready \o WokenPutter(s)
    /\ read(s)

LoopSend(p) == RunNext(<<"send", p>>, SendTasks(p)) /\ send(p)

Loop_send(p, s) ==
    /\ RunNext(<<"_send", p, s>>, IF ~cloused[s] /\ ~Full(s) THEN WokenGetter(s) ELSE <<>>)
    /\ _send(p, s)

LoopPutResume(p, s) ==
    /\ RunNext(<<"put", p, s>>, IF Full(s) THEN <<>> ELSE WokenGetter(s))
    /\ PutResume(p, s)

LoopRead(s) == RunNext(<<"read", s>>, WokenPutter(s)) /\ read(s)

LoopGetResume(s) == RunNext(<<"get", s>>, WokenPutter(s)) /\ GetResume(s)

\* A strict Chanel(1) and two publishers, each of which awaits its send() before
\* its next one.
InitTwoPub == InitOf({}) /\ InitChanel({"p1", "p2"}, {1}, {TRUE})

\* The customers are connected with connect(), which gives them the size of the
\* Chanel; none is closed or disconnected.
NextTwoPub ==
    \/ \E p \in pubs : SendTask(p)
    \/ \E s \in Subs : ReadTask(s)
    \/ \E s \in Subs : LoopConnect(s)
    \/ \E p \in pubs : LoopSend(p)
    \/ \E p \in pubs, s \in Subs : Loop_send(p, s)
    \/ \E p \in pubs, s \in Subs : LoopPutResume(p, s)
    \/ \E p \in pubs : SendReturn(p) /\ UNCHANGED ready
    \/ \E s \in Subs : LoopRead(s)
    \/ \E s \in Subs : LoopGetResume(s)
    \/ \E p \in pubs : DirectSend(p)
    \/ \E s \in Subs : DirectRead(s)

SpecTwoPub == InitTwoPub /\ [][NextTwoPub]_vars

----------------------------------------------------------------------------
(* Claims about the Service *)

Last(log) == IF log = <<>> THEN "none" ELSE log[Len(log)]

IsPrefix(p, q) == Len(p) <= Len(q) /\ \A i \in 1..Len(p) : p[i] = q[i]

CycleSteps == {<<"STOPED", "STARTING">>, <<"STARTING", "RUNNING">>,
               <<"RUNNING", "STOPING">>, <<"STOPING", "STOPED">>}

\* C1: a service starts STOPED and every change of its state is one step of the
\* cycle STOPED -> STARTING -> RUNNING -> STOPING -> STOPED.
C1_StateCycle ==
    /\ \A s \in live : state[s] = "STOPED"
    /\ [][\A s \in live :
            state'[s] # state[s] => <<state[s], state'[s]>> \in CycleSteps]_vars

StopLog == <<"stop", "STOPING", "unsubscribe", "on_stop", "join_main", "cancel",
             "drain", "clear_main", "STOPED", "release", "return">>

\* A stop() has run the whole stop sequence of a service that start() had
\* brought to RUNNING, and another start() has begun the next cycle.
C1_Witness ==
    /\ returned.op = "stop" /\ returned.log = StopLog
    /\ state[returned.obj] = "STARTING"

\* C2: the main-task handle is set exactly when the state is RUNNING or STOPING.
C2_MainIffRunningOrStopping ==
    \A s \in live : (mainTask[s] # "none") <=> (state[s] \in {"RUNNING", "STOPING"})

\* C3: a wait() called on a RUNNING service returns only after the service has
\* reached STOPED since the call, and the completion waiter is never set while
\* the service is RUNNING.
C3_WaitReturnsAfterStopped ==
    /\ (returned.op = "wait" /\ Last(returned.log) = "return") => returned.seen
    /\ \A s \in live : ~(state[s] = "RUNNING" /\ waiterSet[s])

\* The stop() the shutdown signal dispatched for s has found s RUNNING.
SignalStops(s) ==
    /\ \E t \in ListenerTasks : th[t].pc = "ready" /\ th[t].obj = s
    /\ state[s] = "RUNNING"

\* C4: a service that is RUNNING when the shutdown signal calls its stop()
\* eventually reaches STOPED.
C4_ShutdownStopsRunning ==
    \A s \in Svc : SignalStops(s) ~> (state[s] = "STOPED")

InStart(t) == th[t].pc \in {"starting_emit", "on_start", "running_emit"}

\* C5: at most one start() is inside the start sequence of a service at a time,
\* it is the one that found the service STOPED, the main task it spawns
\* replaces no other, and a start() that finds the service not STOPED returns
\* without changing the service.
C5_SingleStart ==
    /\ [](\A s \in live :
            /\ Cardinality({t \in Threads : th[t].obj = s /\ InStart(t)}) <= 1
            /\ \A t \in Threads :
                  (th[t].obj = s /\ th[t].pc \in {"starting_emit", "on_start"})
                      => state[s] = "STARTING")
    /\ [][/\ \A s \in live : (mainTask'[s] = "running" /\ mainTask[s] # "running")
                                  => mainTask[s] = "none"
          /\ (returned'.op = "start" /\ Last(returned'.log) = "noop")
                 => UNCHANGED <<state, mainTask, waiterSet, registered>>]_vars

\* A start() has returned without effect while another start() of the same
\* service is suspended in the STARTING notification.
C5_Witness ==
    /\ returned.op = "start" /\ returned.log = <<"start", "noop">>
    /\ \E t \in Users : th[t].obj = returned.obj /\ th[t].pc = "starting_emit"

StopOrder == <<"STOPING", "unsubscribe", "on_stop", "join_main", "cancel", "drain",
               "clear_main", "STOPED", "release">>

StopSteps(log) == SelectSeq(log, LAMBDA x : \E i \in 1..Len(StopOrder) : StopOrder[i] = x)

\* The steps a stop() does are in the order of StopOrder, and the step that
\* makes the state STOPED finds the service unsubscribed from the shutdown
\* Event, its main task finished and its TaskGroup empty, clears the main-task
\* handle and does not yet release the completion waiter.
StopStepsInOrder ==
    /\ [](/\ \A t \in Threads : IsPrefix(StopSteps(th[t].log), StopOrder)
          /\ IsPrefix(StopSteps(returned.log), StopOrder))
    /\ [][\A s \in live :
            (state'[s] = "STOPED" /\ state[s] # "STOPED") =>
                /\ s \notin registered
                /\ mainTask[s] = "done" /\ mainTask'[s] = "none"
                /\ SetLen(tasks'[s]) = 0 /\ SetLen(uncanceliable_tasks'[s]) = 0
                /\ waiterSet'[s] = waiterSet[s]]_vars

\* __stop__ returned to the stop() with this log.
OnStopCompleted(log) ==
    \E i \in 1..(Len(log) - 1) : log[i] = "on_stop" /\ log[i + 1] # "raise"

\* C6: every stop() of a RUNNING service whose on_stop hook completes does all
\* the steps of StopOrder, in that order: STOPING, unsubscribe, on_stop, the
\* join of the main task, cancel and drain of the TaskGroup, the main-task
\* handle cleared, STOPED, the waiter released.
C6_StopRunsAllSteps ==
    (returned.op = "stop" /\ OnStopCompleted(returned.log))
        => StopSteps(returned.log) = StopOrder

----------------------------------------------------------------------------
(* Claims about the TaskGroup *)

GroupEmpty(o) == SetLen(tasks[o]) = 0 /\ SetLen(uncanceliable_tasks[o]) = 0

\* C7: TaskGroup.wait() ends by returning normally, whatever the sizes of the
\* two sets when it is called, and when it returns both sets are empty.
C7_WaitReturnsWhenDrained ==
    (returned.op = "group_wait" /\ ~returned.cancelReq)
        => (Last(returned.log) = "return" /\ GroupEmpty(returned.obj))

HadMembers(log) == \E i \in 1..Len(log) : log[i] = "members"

\* C8: a TaskGroup.wait() that has members to join and whose task received a
\* cancellation request absorbs the request: the call ends by returning
\* normally, with both sets empty.
C8_CancelAbsorbed ==
    (returned.op = "group_wait" /\ returned.cancelReq /\ HadMembers(returned.log))
        => (Last(returned.log) = "return" /\ GroupEmpty(returned.obj))

----------------------------------------------------------------------------
(* Claims about the Chanel *)

\* What customer s has been given so far: what it read, then what it holds.
Got(s) == recv[s] \o buffer[s]

\* C9: with one publisher, a customer connected before the first send() gets
\* the items of all send() calls in the order of the calls, none lost and none
\* twice: what it read and what its buffer holds are the items 1..n in order,
\* with n the number of send() calls once the last of them has returned.
C9_FifoNoLossNoDup ==
    \A s \in Subs :
        (rd[s] # "none" /\ missed[s] = 0) =>
            /\ \A i \in 1..Len(Got(s)) : Got(s)[i] = Item("p1", i)
            /\ Len(Got(s)) <= pub["p1"].sent
            /\ pub["p1"].pc = "idle" => Len(Got(s)) = pub["p1"].sent
            /\ pub["p1"].pc = "sending" => Len(Got(s)) >= pub["p1"].sent - 1

\* Two customers, one with a buffer of one item and one unbounded, were
\* connected before the first send() and have each read all MaxSends items.
C9_Witness ==
    /\ \A s \in Subs : rd[s] # "none" /\ missed[s] = 0 /\ Len(recv[s]) = MaxSends
    /\ size["s1"] = 1 /\ size["s2"] = 0
    /\ pub["p1"].sent = MaxSends /\ pub["p1"].pc = "idle"

\* C10: a bounded buffer never holds more items than its size; the delivery of
\* a send() to a customer whose buffer was full when send() was called is done,
\* and the send() has returned, only after that customer has read; and every
\* other customer of the send() either has been given the item or has its own
\* delivery ready to run, whatever the state of the full one.
C10_Backpressure ==
    /\ \A s \in Subs : size[s] >= 1 => Len(buffer[s]) <= size[s]
    /\ \A p \in pubs : \A s \in fullAtCall[p] :
          (deliv[p][s] = "done" \/ pub[p].pc = "idle") => s \in readSince[p]
    /\ \A p \in pubs : \A s \in Subs :
          /\ deliv[p][s] = "ready" => ENABLED _send(p, s)
          /\ deliv[p][s] = "done" =>
                \/ \E i \in 1..Len(Got(s)) : Got(s)[i] = Item(p, pub[p].sent)
                \/ cloused[s]

\* A send() is suspended on the full buffer of one customer while another
\* customer has already read the item of that send().
C10_Witness ==
    \E p \in pubs : \E s, t \in Subs :
        /\ s # t /\ deliv[p][s] = "putting" /\ s \in fullAtCall[p]
        /\ size[s] >= 1 /\ Len(buffer[s]) = size[s]
        /\ recv[t] # <<>> /\ recv[t][Len(recv[t])] = Item(p, pub[p].sent)

\* C11: a read() suspended on the empty buffer of a customer that is closed
\* eventually fails with ChanelCustomerCloused.
C11_ClosedReadFails ==
    \A s \in Subs :
        (rd[s] = "getting" /\ cloused[s] /\ buffer[s] = <<>>)
            ~> (rd[s] = "ChanelCustomerCloused")

\* C12: the buffer of a closed customer is empty.
C12_ClosedBufferEmpty ==
    \A s \in Subs : cloused[s] => buffer[s] = <<>>

\* C13: a close() of a customer, whether it is the first or not and whether the
\* customer was disconnected before or not, completes without raising and
\* leaves the customer closed, not in the Chanel, with an empty buffer.
C13_CloseIdempotent ==
    \A s \in Subs :
        closeRes[s] \in {"close_ok", "close_ValueError"} =>
            /\ closeRes[s] = "close_ok"
            /\ cloused[s] /\ s \notin Connected

----------------------------------------------------------------------------
(* Claims about the hooks of the Service *)

\* The call ended with the exception of its hook.
HookRaised(call, hook) ==
    /\ Len(call.log) >= 2
    /\ call.log[Len(call.log) - 1] = hook /\ Last(call.log) = "raise"

InStop(t) == th[t].pc \in {"ready", "stopping_emit", "on_stop", "join_main", "stopped_emit"}

\* C14: the step in which on_start (on_stop) raises ends the start() (stop())
\* with that exception and changes nothing of the service: the state is
\* STARTING (STOPING), no main task is spawned, the waiter is not released; and
\* a service in STARTING or STOPING with no call inside its start or stop
\* sequence keeps that state.
C14_HookFailure ==
    /\ [][/\ HookRaised(returned', "on_start") =>
                /\ state'[returned'.obj] = "STARTING"
                /\ mainTask'[returned'.obj] = "none"
                /\ UNCHANGED <<state, mainTask, waiterSet, registered>>
          /\ HookRaised(returned', "on_stop") =>
                /\ state'[returned'.obj] = "STOPING"
                /\ UNCHANGED <<state, mainTask, waiterSet, registered>>]_vars
    /\ [][\A s \in live :
            (/\ state[s] \in {"STARTING", "STOPING"}
             /\ ~\E t \in Threads : th[t].obj = s /\ (InStart(t) \/ InStop(t)))
                => state'[s] = state[s]]_vars

\* A stop() has ended with the exception of on_stop, its service in STOPING
\* with the waiter not released.
C14_Witness ==
    /\ HookRaised(returned, "on_stop") /\ returned.op = "stop"
    /\ state[returned.obj] = "STOPING" /\ ~waiterSet[returned.obj]

StartLog == <<"start", "STARTING", "on_start", "subscribe", "RUNNING", "spawn_main",
              "return">>

\* C19: a start() that finds the service STOPED makes the state STARTING; the
\* state becomes RUNNING only in the step in which on_start has returned, from
\* STARTING; the main task is spawned only by a start() that is past on_start
\* and the RUNNING notification; and while the state is STARTING no main task
\* exists.
C19_StartOrder ==
    /\ [](\A s \in live : state[s] = "STARTING" => mainTask[s] = "none")
    /\ []((returned.op = "start" /\ Last(returned.log) = "return")
             => returned.log = StartLog)
    /\ [][\A s \in live :
            /\ (state'[s] = "RUNNING" /\ state[s] # "RUNNING") =>
                  /\ state[s] = "STARTING"
                  /\ \E t \in Threads : /\ th[t].obj = s /\ th[t].pc = "on_start"
                                         /\ th'[t].pc = "running_emit"
            /\ (mainTask'[s] = "running" /\ mainTask[s] # "running") =>
                  \E t \in Threads : /\ th[t].obj = s /\ th[t].pc = "running_emit"
                                     /\ Last(th[t].log) = "RUNNING"
            /\ \A t \in Users :
                  (th[t].pc = "idle" /\ th'[t].op = "start" /\ th'[t].obj = s
                   /\ is_stoped(s)) => state'[s] = "STARTING"]_vars

\* A start() has returned after the whole start sequence, the main task
\* running in the state RUNNING.
C19_Witness ==
    /\ returned.op = "start" /\ returned.log = StartLog
    /\ state[returned.obj] = "RUNNING" /\ mainTask[returned.obj] = "running"

----------------------------------------------------------------------------
(* Claims about a Chanel without customers *)

\* C18: a send() on a Chanel with no customer ends in the same step, with
\* ChanelCloused when the Chanel is strict and normally when it is not, and
\* changes nothing of the Chanel or of a customer; and a customer never gets an
\* item of a send() made before it connected.
C18_SendWithoutCustomers ==
    /\ [][\A p \in pubs :
            (pub'[p].sent # pub[p].sent /\ customers = <<>>) =>
                /\ pub'[p].pc = "idle"
                /\ pub'[p].res = IF strict THEN "ChanelCloused" ELSE "ok"
                /\ UNCHANGED <<strict, chanel_size, customers, size, buffer, cloused,
                               putters, deliv, rd, recv>>]_vars
    /\ [](\A s \in Subs : \A i \in 1..Len(Got(s)) : Got(s)[i][2] > missed[s])

\* A send() on a strict Chanel without customers has failed, a customer has
\* connected afterwards, and the next send() has given it the next item only.
C18_Witness ==
    /\ strict /\ pub["p1"].sent = 2 /\ pub["p1"].pc = "idle"
    /\ \E s \in Subs : missed[s] = 1 /\ Got(s) = <<Item("p1", 2)>>
    /\ \A s \in Subs : rd[s] # "none" => missed[s] = 1

----------------------------------------------------------------------------
(* Claims about the termination of stop() *)

\* A stop() has found s RUNNING with its main task running.
Stopping(s) ==
    \E t \in Threads : /\ th[t].obj = s /\ th[t].pc = "stopping_emit"
                       /\ mainTask[s] = "running"

\* C20: under fair scheduling a stop() of a RUNNING service, with any number
\* of auxiliary tasks in its TaskGroup, leads to the state STOPED.
C20_StopTerminates ==
    \A s \in Svc : Stopping(s) ~> (state[s] = "STOPED")

----------------------------------------------------------------------------
(* Claims about the observers of a Service *)

\* C15: an observer given to the subscribe() of service "a" only is never
\* invoked for a state change of another service.
C15_ObserverOfOneService ==
    \A o \in Observers :
        subVia[o] = {"a"} => observed[o][1] \in {"none", "a"}

----------------------------------------------------------------------------
(* Claims about the Event *)

\* C16: whatever the listeners of an open Event do, an emit() invokes the
\* listeners registered when its task runs and no other; no listener is invoked
\* twice by one emit(); when the task is done every one of these listeners has
\* been invoked once and none is still running; and emit() returns normally: no
\* exception of a listener reaches the emitter.
C16_EmitInvokesAllOnce ==
    /\ [](\A e \in Emitters :
            /\ \A l \in Listeners : em[e].inv[l] <= 1
            /\ em[e].res \in {"none", "ok", "EventClosedError"}
            /\ em[e].pc = "done" =>
                  \A l \in Listeners :
                      /\ em[e].inv[l] = IF l \in em[e].snap THEN 1 ELSE 0
                      /\ em[e].run[l] \notin {"ready", "suspended"})
    /\ [][\A e \in Emitters :
            /\ (em[e].pc = "task" /\ em'[e].pc # "task") => em'[e].snap = ev_listeners
            /\ (em[e].pc = "done" /\ em'[e].pc = "idle") => em'[e].res = "ok"]_vars

\* C17: a closed Event stays closed and has no listener; add_listener on it
\* fails with EventClosedError, remove_listener and close do not fail; an
\* emit() on it fails with EventClosedError in the same step, no listener
\* invoked; and a close() on it changes nothing.
C17_ClosedEvent ==
    /\ [](ev_closed =>
            /\ ev_listeners = {}
            /\ evRes[1] = "add_listener" => evRes[2] = "EventClosedError"
            /\ evRes[1] \in {"remove_listener", "close"} => evRes[2] = "ok")
    /\ [][ev_closed =>
            /\ ev_closed'
            /\ \A e \in Emitters :
                  (em[e].pc = "idle" /\ em'[e] # em[e]) =>
                      em'[e] = [IdleEmit EXCEPT !.res = "EventClosedError"]
            /\ evRes'[1] = "close" => UNCHANGED <<ev_listeners, ev_closed, em>>]_vars

\* On a closed Event an emit() has failed and close() was called again, while
\* an emit() called before the first close() still waits for a listener.
C17_Witness ==
    /\ ev_closed /\ evRes = <<"close", "ok">>
    /\ em["e1"].res = "EventClosedError"
    /\ em["e2"].pc = "group"

----------------------------------------------------------------------------
(* Claims about the registration with the shutdown Event *)

\* C21: a service whose state is RUNNING is a listener of the shutdown Event,
\* and a service whose state is STOPED or STARTING is not.
C21_RegisteredWhenRunning ==
    \A s \in live :
        /\ state[s] = "RUNNING" => s \in registered
        /\ state[s] \in {"STOPED", "STARTING"} => s \notin registered

\* A stop() is suspended in the STOPING notification, its service still
\* registered, and a second stop() of the service has returned without effect.
C21_Witness ==
    \E t \in Threads :
        /\ th[t].pc = "stopping_emit" /\ state[th[t].obj] = "STOPING"
        /\ th[t].obj \in registered
        /\ returned.op = "stop" /\ returned.obj = th[t].obj
        /\ Last(returned.log) = "noop"


----------------------------------------------------------------------------
(* Claims about two publishers of one Chanel *)

\* x comes before y in the sequence q.
Before(q, x, y) ==
    \E i, j \in 1..Len(q) : i < j /\ q[i] = x /\ q[j] = y

\* C22: with two publishers sending concurrently, two customers that stay
\* connected and unclosed read the items in the same relative order: no items
\* x, y are read as x before y by one customer and as y before x by another.
C22_SameRelativeOrder ==
    \A s1, s2 \in Subs :
        \A i, j \in 1..Len(recv[s1]) :
            i < j => ~Before(recv[s2], recv[s1][j], recv[s1][i])

====
